---- MODULE Spec2Model ----
(***************************************************************************)
(* A model of fasta.py: the compression sniffer (get_compression_type),    *)
(* the opener (get_open_func), the record generator (parse), Record.format *)
(* and to_dict.                                                            *)
(*                                                                         *)
(* A Python str is a sequence of one-character strings, a bytes object a   *)
(* sequence of integers 0..255, a list a sequence.                         *)
(***************************************************************************)
EXTENDS Integers, Sequences, FiniteSets, TLC

VARIABLES
    data,              \* the bytes of the file at `filename`
    content,           \* the text the opened decoder yields for that file
    HAS_ZSTANDARD,     \* fasta.py:24/26
    HAS_LZ4,           \* fasta.py:18/20
    pc,                \* position of the parse() generator
    sniff_fh,          \* get_compression_type's fh: "none", "open", "closed"
    stream_fh,         \* parse's fh: "none", "open", "closed"
    opens,             \* number of decoder streams opened by this parse call
    file_start,        \* get_compression_type's file_start
    compression_type,  \* get_open_func's compression_type
    error,             \* the exception that left the generator, or "none"
    lines,             \* what is left to read from fh, line by line
    line,              \* parse's current line
    consumed,          \* the lines read from fh so far (history)
    seqid,             \* parse's seqid
    desc,              \* parse's desc
    seq,               \* parse's seq (the list of stripped body lines)
    yielded,           \* the Records yielded so far, in order
    call,              \* a call of a pure function: its name and arguments
    ret                \* the value that call returned, once it has

vars == <<data, content, HAS_ZSTANDARD, HAS_LZ4, pc, sniff_fh, stream_fh,
          opens, file_start, compression_type, error, lines, line, consumed,
          seqid, desc, seq, yielded, call, ret>>

genVars == <<data, content, HAS_ZSTANDARD, HAS_LZ4, pc, sniff_fh, stream_fh,
             opens, file_start, compression_type, error, lines, line,
             consumed, seqid, desc, seq, yielded>>

----------------------------------------------------------------------------
(* Bounds of the model.                                                    *)

MaxLines == 4

MaxWrap == 3

MaxSeqLen == 4

MaxRecords == 3

MaxTail == 1

----------------------------------------------------------------------------
(* Python values.                                                          *)

\* Python's None: a value no str (sequence of characters) is equal to.
None == <<"None">>

\* str(None), as an f-string renders it.
NoneStr == <<"N", "o", "n", "e">>

NL == "\n"

\* The characters str.strip() and str.split() treat as whitespace.
Whitespace == {" ", "\t", "\n", "\r"}

Chars(s) == {s[i] : i \in 1..Len(s)}

\* s.startswith(p)
startswith(s, p) == Len(p) <= Len(s) /\ SubSeq(s, 1, Len(p)) = p

RECURSIVE lstrip(_)
lstrip(s) ==
    IF s # <<>> /\ Head(s) \in Whitespace THEN lstrip(Tail(s)) ELSE s

RECURSIVE rstrip(_)
rstrip(s) ==
    IF s # <<>> /\ s[Len(s)] \in Whitespace
    THEN rstrip(SubSeq(s, 1, Len(s) - 1))
    ELSE s

\* s.strip()
strip(s) == rstrip(lstrip(s))

\* the first whitespace-free run of s, s having no leading whitespace
RECURSIVE token(_)
token(s) ==
    IF s = <<>> \/ Head(s) \in Whitespace THEN <<>>
    ELSE <<Head(s)>> \o token(Tail(s))

\* s.split(): the whitespace-delimited tokens of s
RECURSIVE split(_)
split(s) ==
    LET t == lstrip(s)
    IN  IF t = <<>> THEN <<>>
        ELSE <<token(t)>> \o split(SubSeq(t, Len(token(t)) + 1, Len(t)))

\* "".join(lst)
RECURSIVE join(_)
join(lst) == IF lst = <<>> THEN <<>> ELSE Head(lst) \o join(Tail(lst))

\* the first line of text t, its terminator kept
RECURSIVE firstline(_)
firstline(t) ==
    IF t = <<>> THEN <<>>
    ELSE IF Head(t) = NL THEN <<NL>>
    ELSE <<Head(t)>> \o firstline(Tail(t))

\* `for line in fh`: the lines of a text stream, each with its terminator
RECURSIVE readlines(_)
readlines(t) ==
    IF t = <<>> THEN <<>>
    ELSE <<firstline(t)>> \o readlines(SubSeq(t, Len(firstline(t)) + 1, Len(t)))

\* `if seq is not None:` in place of `if seq:`
truth_not_none(x) == x # None

\* the truth value of a str, list or None (`if seq:`, `if self.desc:`)
truth(x) == x # None /\ x # <<>>

----------------------------------------------------------------------------
(* Record.                                                                 *)

\* Record.__init__
Record(id, s, d) == [id |-> id, seq |-> s, desc |-> d]

\* f'{x}' of a str or None
fstr(x) == IF x = None THEN NoneStr ELSE x

\* a description that leaves desc out
description_id_only(self) == <<">">> \o fstr(self.id)

\* Record.description: '>' + id, then ' ' + desc when desc is truthy
description(self) ==
    IF truth(self.desc)
    THEN <<">">> \o fstr(self.id) \o <<" ">> \o fstr(self.desc)
    ELSE <<">">> \o fstr(self.id)

\* chunks that are one character too long: seq[i:i+wrap+1], step wrap + 1
RECURSIVE chunks_too_long(_, _)
chunks_too_long(s, wrap) ==
    IF s = <<>> THEN <<>>
    ELSE IF Len(s) <= wrap + 1 THEN s \o <<NL>>
    ELSE SubSeq(s, 1, wrap + 1) \o <<NL>>
         \o chunks_too_long(SubSeq(s, wrap + 2, Len(s)), wrap)

\* the chunks seq[i:i+wrap] for i in range(0, len(seq), wrap), each + '\n'
RECURSIVE chunks(_, _)
chunks(s, wrap) ==
    IF s = <<>> THEN <<>>
    ELSE IF Len(s) <= wrap THEN s \o <<NL>>
    ELSE SubSeq(s, 1, wrap) \o <<NL>> \o chunks(SubSeq(s, wrap + 1, Len(s)), wrap)

\* Record.format(wrap)
format(self, wrap) ==
    IF wrap # 0
    THEN description(self) \o <<NL>> \o chunks(self.seq, wrap)
    ELSE description(self) \o <<NL>> \o self.seq \o <<NL>>

----------------------------------------------------------------------------
(* parse: the body of the loop, as functions of the header line.           *)

\* line.startswith('>')
is_header(l) == startswith(l, <<">">>)

\* seqid = line.split()[0][1:]
header_seqid(l) == Tail(split(l)[1])

\* desc = line[len(seqid)+1:].strip() or None
header_desc_or_none(l, id) ==
    IF strip(SubSeq(l, Len(id) + 2, Len(l))) = <<>> THEN None
    ELSE strip(SubSeq(l, Len(id) + 2, Len(l)))

\* desc = line[len(seqid)+1:].strip()
header_desc(l, id) == strip(SubSeq(l, Len(id) + 2, Len(l)))

\* parse run to exhaustion over the lines ls, from the locals (id, d, s):
\* the Records it yields, in order
RECURSIVE parse_from(_, _, _, _)
parse_from(ls, id, d, s) ==
    IF ls = <<>>
    THEN IF truth(s) THEN <<Record(id, join(s), d)>> ELSE <<>>
    ELSE IF is_header(Head(ls))
    THEN (IF truth(s) THEN <<Record(id, join(s), d)>> ELSE <<>>)
         \o parse_from(Tail(ls), header_seqid(Head(ls)),
                       header_desc(Head(ls), header_seqid(Head(ls))),
                       IF truth(s) THEN <<>> ELSE s)
    ELSE parse_from(Tail(ls), id, d, Append(s, strip(Head(ls))))

\* list(parse(filename)) for a file whose decoded text is t
parse_text(t) == parse_from(readlines(t), None, None, <<>>)

----------------------------------------------------------------------------
(* get_compression_type and get_open_func.                                 *)

\* max_len = 4
max_len == 4

\* The dict d, in insertion order.  A tuple key is handed to
\* bytes.startswith as a tuple of alternatives, each one byte long; a bytes
\* key is one alternative of four bytes.
d ==
    << [key |-> {<<31>>, <<139>>, <<8>>},     value |-> "gz"],
       [key |-> {<<66>>, <<90>>, <<104>>},    value |-> "bz2"],
       [key |-> {<<80>>, <<75>>, <<3>>, <<4>>}, value |-> "zip"],
       [key |-> {<<40, 181, 47, 253>>},       value |-> "zstandard"],
       [key |-> {<<4, 34, 77, 24>>},          value |-> "lz4"] >>

\* file_start.startswith(first_bytes)
bytes_startswith(start, first_bytes) ==
    \E p \in first_bytes : startswith(start, p)

\* fh.read(max_len)
read_start(bytes) ==
    SubSeq(bytes, 1, IF Len(bytes) < max_len THEN Len(bytes) ELSE max_len)

\* the loop over d, with its break, from entry i on
RECURSIVE scan(_, _)
scan(start, i) ==
    IF i > Len(d) THEN "plain"
    ELSE IF bytes_startswith(start, d[i].key) THEN d[i].value
    ELSE scan(start, i + 1)

\* get_compression_type, given what fh.read(max_len) returned
get_compression_type(start) == scan(start, 1)

\* the dict open_funcs of get_open_func
open_funcs ==
    [gz        |-> "gzip.open",
     bz2       |-> "bz2.open",
     plain     |-> "open",
     zstandard |-> IF HAS_ZSTANDARD THEN "zstandard.open" ELSE "None",
     lz4       |-> IF HAS_LZ4 THEN "lz4.open" ELSE "None"]

----------------------------------------------------------------------------
(* The parse() generator, one action per step of its body.  The consumer   *)
(* drives it: Begin and the Resume actions are next(gen), Close is         *)
(* gen.close(), Abandon is the consumer dropping the generator, whose      *)
(* finalizer closes it.                                                    *)

\* next(gen) on a generator not yet started: seqid, desc, seq are set and
\* get_open_func(filename) is entered
Begin ==
    /\ pc = "created"
    /\ pc' = "sniff_open"
    /\ UNCHANGED <<data, content, HAS_ZSTANDARD, HAS_LZ4, sniff_fh, stream_fh,
                   opens, file_start, compression_type, error, lines, line,
                   consumed, seqid, desc, seq, yielded, call, ret>>

\* fh = open(str(filename), 'rb')
SniffOpen ==
    /\ pc = "sniff_open"
    /\ sniff_fh' = "open"
    /\ pc' = "sniff_read"
    /\ UNCHANGED <<data, content, HAS_ZSTANDARD, HAS_LZ4, stream_fh,
                   opens, file_start, compression_type, error, lines, line,
                   consumed, seqid, desc, seq, yielded, call, ret>>

\* open(str(filename), 'rb') raises: no handle exists
SniffOpenFails ==
    /\ pc = "sniff_open"
    /\ error' = "OSError"
    /\ pc' = "raised"
    /\ UNCHANGED <<data, content, HAS_ZSTANDARD, HAS_LZ4, sniff_fh, stream_fh,
                   opens, file_start, compression_type, lines, line,
                   consumed, seqid, desc, seq, yielded, call, ret>>

\* file_start = fh.read(max_len)
SniffRead ==
    /\ pc = "sniff_read"
    /\ file_start' = read_start(data)
    /\ pc' = "sniff_close"
    /\ UNCHANGED <<data, content, HAS_ZSTANDARD, HAS_LZ4, sniff_fh, stream_fh,
                   opens, compression_type, error, lines, line,
                   consumed, seqid, desc, seq, yielded, call, ret>>

\* fh.read(max_len) raises: the exception leaves get_compression_type,
\* get_open_func and the generator; nothing on the way closes fh
SniffReadFails ==
    /\ pc = "sniff_read"
    /\ error' = "OSError"
    /\ pc' = "raised"
    /\ UNCHANGED <<data, content, HAS_ZSTANDARD, HAS_LZ4, sniff_fh, stream_fh,
                   opens, file_start, compression_type, lines, line,
                   consumed, seqid, desc, seq, yielded, call, ret>>

\* fh.close(), then the scan of d; get_compression_type returns
SniffClose ==
    /\ pc = "sniff_close"
    /\ sniff_fh' = "closed"
    /\ compression_type' = get_compression_type(file_start)
    /\ pc' = "get_open_func"
    /\ UNCHANGED <<data, content, HAS_ZSTANDARD, HAS_LZ4, stream_fh,
                   opens, file_start, error, lines, line,
                   consumed, seqid, desc, seq, yielded, call, ret>>

\* func = open_funcs[compression_type] with no such key
LookupKeyError ==
    /\ pc = "get_open_func"
    /\ compression_type \notin DOMAIN open_funcs
    /\ error' = "KeyError"
    /\ pc' = "raised"
    /\ UNCHANGED <<data, content, HAS_ZSTANDARD, HAS_LZ4, sniff_fh, stream_fh,
                   opens, file_start, compression_type, lines, line,
                   consumed, seqid, desc, seq, yielded, call, ret>>

\* func == None: raise ImportError(f'{compression_type} is required for: ...')
LookupImportError ==
    /\ pc = "get_open_func"
    /\ compression_type \in DOMAIN open_funcs
    /\ open_funcs[compression_type] = "None"
    /\ error' = "ImportError"
    /\ pc' = "raised"
    /\ UNCHANGED <<data, content, HAS_ZSTANDARD, HAS_LZ4, sniff_fh, stream_fh,
                   opens, file_start, compression_type, lines, line,
                   consumed, seqid, desc, seq, yielded, call, ret>>

\* return func
LookupReturns ==
    /\ pc = "get_open_func"
    /\ compression_type \in DOMAIN open_funcs
    /\ open_funcs[compression_type] # "None"
    /\ pc' = "open"
    /\ UNCHANGED <<data, content, HAS_ZSTANDARD, HAS_LZ4, sniff_fh, stream_fh,
                   opens, file_start, compression_type, error, lines, line,
                   consumed, seqid, desc, seq, yielded, call, ret>>

\* with func(filename, 'rt') as fh: the stream is opened and entered
OpenStream ==
    /\ pc = "open"
    /\ stream_fh' = "open"
    /\ opens' = opens + 1
    /\ lines' = readlines(content)
    /\ pc' = "loop"
    /\ UNCHANGED <<data, content, HAS_ZSTANDARD, HAS_LZ4, sniff_fh,
                   file_start, compression_type, error, line,
                   consumed, seqid, desc, seq, yielded, call, ret>>

\* func(filename, 'rt') raises: no stream exists
OpenFails ==
    /\ pc = "open"
    /\ error' = "OSError"
    /\ pc' = "raised"
    /\ UNCHANGED <<data, content, HAS_ZSTANDARD, HAS_LZ4, sniff_fh, stream_fh,
                   opens, file_start, compression_type, lines, line,
                   consumed, seqid, desc, seq, yielded, call, ret>>

\* a header line is read while seq is truthy: yield Record(...) at line 180
ReadHeaderYield ==
    /\ pc = "loop"
    /\ lines # <<>>
    /\ is_header(Head(lines))
    /\ truth(seq)
    /\ line' = Head(lines)
    /\ lines' = Tail(lines)
    /\ consumed' = Append(consumed, Head(lines))
    /\ yielded' = Append(yielded, Record(seqid, join(seq), desc))
    /\ pc' = "yield_180"
    /\ UNCHANGED <<data, content, HAS_ZSTANDARD, HAS_LZ4, sniff_fh, stream_fh,
                   opens, file_start, compression_type, error,
                   seqid, desc, seq, call, ret>>

\* next(gen) at the yield of line 180: seq = [], then seqid and desc are
\* taken from the header line
Resume180 ==
    /\ pc = "yield_180"
    /\ seq' = <<>>
    /\ seqid' = header_seqid(line)
    /\ desc' = header_desc(line, header_seqid(line))
    /\ pc' = "loop"
    /\ UNCHANGED <<data, content, HAS_ZSTANDARD, HAS_LZ4, sniff_fh, stream_fh,
                   opens, file_start, compression_type, error, lines, line,
                   consumed, yielded, call, ret>>

\* a header line is read while seq is empty: seqid and desc are taken
ReadHeader ==
    /\ pc = "loop"
    /\ lines # <<>>
    /\ is_header(Head(lines))
    /\ ~truth(seq)
    /\ line' = Head(lines)
    /\ lines' = Tail(lines)
    /\ consumed' = Append(consumed, Head(lines))
    /\ seqid' = header_seqid(Head(lines))
    /\ desc' = header_desc(Head(lines), header_seqid(Head(lines)))
    /\ UNCHANGED <<data, content, HAS_ZSTANDARD, HAS_LZ4, pc, sniff_fh,
                   stream_fh, opens, file_start, compression_type, error,
                   seq, yielded, call, ret>>

\* any other line is read: seq.append(line.strip())
ReadBody ==
    /\ pc = "loop"
    /\ lines # <<>>
    /\ ~is_header(Head(lines))
    /\ line' = Head(lines)
    /\ lines' = Tail(lines)
    /\ consumed' = Append(consumed, Head(lines))
    /\ seq' = Append(seq, strip(Head(lines)))
    /\ UNCHANGED <<data, content, HAS_ZSTANDARD, HAS_LZ4, pc, sniff_fh,
                   stream_fh, opens, file_start, compression_type, error,
                   seqid, desc, yielded, call, ret>>

\* the stream is exhausted while seq is truthy: yield Record(...) at line 187
EndYield ==
    /\ pc = "loop"
    /\ lines = <<>>
    /\ truth(seq)
    /\ yielded' = Append(yielded, Record(seqid, join(seq), desc))
    /\ pc' = "yield_187"
    /\ UNCHANGED <<data, content, HAS_ZSTANDARD, HAS_LZ4, sniff_fh, stream_fh,
                   opens, file_start, compression_type, error, lines, line,
                   consumed, seqid, desc, seq, call, ret>>

\* the stream is exhausted while seq is empty: the with block is left, fh is
\* closed, the generator returns
EndReturn ==
    /\ pc = "loop"
    /\ lines = <<>>
    /\ ~truth(seq)
    /\ stream_fh' = "closed"
    /\ pc' = "finished"
    /\ UNCHANGED <<data, content, HAS_ZSTANDARD, HAS_LZ4, sniff_fh,
                   opens, file_start, compression_type, error, lines, line,
                   consumed, seqid, desc, seq, yielded, call, ret>>

\* next(gen) at the yield of line 187: the with block is left, fh is closed,
\* the generator returns
Resume187 ==
    /\ pc = "yield_187"
    /\ stream_fh' = "closed"
    /\ pc' = "finished"
    /\ UNCHANGED <<data, content, HAS_ZSTANDARD, HAS_LZ4, sniff_fh,
                   opens, file_start, compression_type, error, lines, line,
                   consumed, seqid, desc, seq, yielded, call, ret>>

\* reading the next line raises: the exception leaves the with block, which
\* closes fh, and then the generator
ReadFails ==
    /\ pc = "loop"
    /\ stream_fh' = "closed"
    /\ error' = "OSError"
    /\ pc' = "raised"
    /\ UNCHANGED <<data, content, HAS_ZSTANDARD, HAS_LZ4, sniff_fh,
                   opens, file_start, compression_type, lines, line,
                   consumed, seqid, desc, seq, yielded, call, ret>>

\* what GeneratorExit, thrown at the point where the generator is suspended,
\* does: nothing before the body started, else the with block is left and fh
\* closed
exit_fh == IF pc = "created" THEN stream_fh ELSE "closed"

\* gen.close() on a generator not started or suspended at a yield
Close ==
    /\ pc \in {"created", "yield_180", "yield_187"}
    /\ stream_fh' = exit_fh
    /\ pc' = "closed"
    /\ UNCHANGED <<data, content, HAS_ZSTANDARD, HAS_LZ4, sniff_fh,
                   opens, file_start, compression_type, error, lines, line,
                   consumed, seqid, desc, seq, yielded, call, ret>>

\* the consumer stops iterating and drops the generator: its finalizer
\* closes it as gen.close() does
Abandon ==
    /\ pc \in {"created", "yield_180", "yield_187"}
    /\ stream_fh' = exit_fh
    /\ pc' = "abandoned"
    /\ UNCHANGED <<data, content, HAS_ZSTANDARD, HAS_LZ4, sniff_fh,
                   opens, file_start, compression_type, error, lines, line,
                   consumed, seqid, desc, seq, yielded, call, ret>>

----------------------------------------------------------------------------
(* Inputs.                                                                 *)

\* The lines the texts are made of, without their terminators: bare and
\* padded headers, headers with and without a description, plain and blank
\* body lines, body lines with outer and inner whitespace or with a '>'.
LinePool ==
    { <<">">>,
      <<">", "A">>,
      <<">", " ", "A">>,
      <<">", "A", " ", "C", " ">>,
      <<"A">>,
      <<" ", "A", " ", "C", " ">>,
      <<>>,
      <<" ", ">", "A">> }

\* the texts of exactly n lines of pool, every line terminated
RECURSIVE TextsOf(_, _)
TextsOf(pool, n) ==
    IF n = 0 THEN {<<>>}
    ELSE {l \o <<NL>> \o t : l \in pool, t \in TextsOf(pool, n - 1)}

\* the texts of at most n lines, the last line with or without terminator
Texts(pool, n) ==
    LET full == UNION {TextsOf(pool, k) : k \in 0..n}
    IN  full \cup {SubSeq(t, 1, Len(t) - 1) : t \in full \ {<<>>}}

\* the decoded texts of the generator's life-cycle specification
Payloads ==
    { <<>>,
      <<">", "A", NL, "A", NL>>,
      <<"A", NL, ">", "A", NL, "C", NL, ">", "C", NL, "A">> }

\* the bytes of a text (ASCII)
ByteOf(c) ==
    CASE c = ">" -> 62 [] c = "A" -> 65 [] c = "C" -> 67
      [] c = " " -> 32 [] c = "\n" -> 10

Encode(t) == [i \in 1..Len(t) |-> ByteOf(t[i])]

\* a file that holds nothing but the characters of the texts
IsText(bytes) == \A i \in 1..Len(bytes) : bytes[i] \in {62, 65, 67, 32, 10}

\* the signatures of the compressed formats
Magic ==
    { <<31, 139, 8>>, <<66, 90, 104>>, <<80, 75, 3, 4>>,
      <<40, 181, 47, 253>>, <<4, 34, 77, 24>> }

\* bytes that follow a signature, or a part of one
TailBytes == {62, 4, 139}

RECURSIVE BytesUpTo(_)
BytesUpTo(n) ==
    IF n = 0 THEN {<<>>}
    ELSE BytesUpTo(n - 1)
         \cup {Append(t, b) : t \in BytesUpTo(n - 1), b \in TailBytes}

\* files that begin with a signature, or with a part of one
BinaryFiles ==
    {SubSeq(m, 1, k) \o t : m \in Magic, k \in 0..3, t \in BytesUpTo(MaxTail)}
    \cup Magic

----------------------------------------------------------------------------
(* Specifications.                                                         *)

NoCall == [fn |-> "none"]

Pending == [done |-> FALSE]

\* the state of a parse(filename) generator just created
Created ==
    /\ pc = "created"
    /\ sniff_fh = "none"
    /\ stream_fh = "none"
    /\ opens = 0
    /\ file_start = <<>>
    /\ compression_type = "unset"
    /\ error = "none"
    /\ lines = <<>>
    /\ line = <<>>
    /\ consumed = <<>>
    /\ seqid = None
    /\ desc = None
    /\ seq = <<>>
    /\ yielded = <<>>

\* parse(filename) of any file of the model, with any codecs installed
Init ==
    /\ content \in Payloads
    /\ data \in BinaryFiles \cup {Encode(content)}
    /\ IsText(data) => data = Encode(content)
    /\ HAS_ZSTANDARD \in BOOLEAN
    /\ HAS_LZ4 \in BOOLEAN
    /\ Created
    /\ call = NoCall
    /\ ret = Pending

Next ==
    \/ Begin
    \/ SniffOpen
    \/ SniffOpenFails
    \/ SniffRead
    \/ SniffReadFails
    \/ SniffClose
    \/ LookupKeyError
    \/ LookupImportError
    \/ LookupReturns
    \/ OpenStream
    \/ OpenFails
    \/ ReadHeaderYield
    \/ Resume180
    \/ ReadHeader
    \/ ReadBody
    \/ EndYield
    \/ EndReturn
    \/ Resume187
    \/ ReadFails
    \/ Close
    \/ Abandon

Spec == Init /\ [][Next]_vars

\* parse(filename) of a plain text file, consumed to the end: the state is
\* the one OpenStream leaves
InitParse ==
    /\ content \in Texts(LinePool, MaxLines)
    /\ data = Encode(content)
    /\ HAS_ZSTANDARD = FALSE
    /\ HAS_LZ4 = FALSE
    /\ pc = "loop"
    /\ sniff_fh = "closed"
    /\ stream_fh = "open"
    /\ opens = 1
    /\ file_start = read_start(data)
    /\ compression_type = "plain"
    /\ error = "none"
    /\ lines = readlines(content)
    /\ line = <<>>
    /\ consumed = <<>>
    /\ seqid = None
    /\ desc = None
    /\ seq = <<>>
    /\ yielded = <<>>
    /\ call = NoCall
    /\ ret = Pending

NextParse ==
    \/ ReadHeaderYield
    \/ Resume180
    \/ ReadHeader
    \/ ReadBody
    \/ EndYield
    \/ EndReturn
    \/ Resume187

SpecParse == InitParse /\ [][NextParse]_vars

----------------------------------------------------------------------------
(* Record.format and to_dict, called on their own.                         *)

\* the strings over alphabet of length at most n
RECURSIVE Strs(_, _)
Strs(alphabet, n) ==
    IF n = 0 THEN {<<>>}
    ELSE Strs(alphabet, n - 1)
         \cup {Append(t, c) : t \in Strs(alphabet, n - 1), c \in alphabet}

\* the lists over S of length at most n
RECURSIVE Lists(_, _)
Lists(S, n) ==
    IF n = 0 THEN {<<>>}
    ELSE Lists(S, n - 1) \cup {Append(t, x) : t \in Lists(S, n - 1), x \in S}

\* no generator is involved
Idle ==
    /\ data = <<>>
    /\ content = <<>>
    /\ HAS_ZSTANDARD = FALSE
    /\ HAS_LZ4 = FALSE
    /\ Created

\* record.format(wrap)
Format ==
    /\ call.fn = "format"
    /\ ~ret.done
    /\ ret' = [done |-> TRUE, value |-> format(call.self, call.wrap)]
    /\ UNCHANGED <<genVars, call>>

InitFormat ==
    /\ Idle
    /\ call \in {[fn |-> "format", self |-> Record(id, s, dsc), wrap |-> w] :
                    id \in {<<>>, <<"A">>},
                    s \in Strs({"A", "C"}, MaxSeqLen),
                    dsc \in {None, <<>>, <<"C">>},
                    w \in 0..MaxWrap}
    /\ ret = Pending

SpecFormat == InitFormat /\ [][Format]_vars

\* "".join(record.format(wrap) for record in records)
RECURSIVE format_all(_, _)
format_all(records, wrap) ==
    IF records = <<>> THEN <<>>
    ELSE format(Head(records), wrap) \o format_all(Tail(records), wrap)

\* the Records of a text are parsed, written with format(wrap) one after
\* the other, and the text so written is parsed again
RoundTrip ==
    /\ call.fn = "roundtrip"
    /\ ~ret.done
    /\ ret' = LET records == parse_text(call.text)
                  written == format_all(records, call.wrap)
              IN  [done |-> TRUE, records |-> records, written |-> written,
                   reparsed |-> parse_text(written)]
    /\ UNCHANGED <<genVars, call>>

\* the lines of the round trip's texts
RoundTripPool ==
    { <<">", "A">>,
      <<">", " ", "A">>,
      <<">", "A", " ", "C", " ">>,
      <<"A", "C">>,
      <<>>,
      <<"A", " ", "C">>,
      <<" ", ">", "A">> }

InitRoundTrip ==
    /\ Idle
    /\ call \in {[fn |-> "roundtrip", text |-> t, wrap |-> w] :
                    t \in UNION {TextsOf(RoundTripPool, k) : k \in 0..MaxLines},
                    w \in 0..MaxWrap}
    /\ ret = Pending

SpecRoundTrip == InitRoundTrip /\ [][RoundTrip]_vars

\* dct.setdefault(key, value): the first value of a key is kept
setitem_keep_first(dct, key, value) ==
    [k \in DOMAIN dct \cup {key} |-> IF k \in DOMAIN dct THEN dct[k] ELSE value]

\* dct[key] = value
setitem(dct, key, value) ==
    [k \in DOMAIN dct \cup {key} |-> IF k = key THEN value ELSE dct[k]]

\* {record.id: record for record in sequences}, from the dict dct on
RECURSIVE to_dict_from(_, _)
to_dict_from(dct, sequences) ==
    IF sequences = <<>> THEN dct
    ELSE to_dict_from(setitem(dct, Head(sequences).id, Head(sequences)),
                      Tail(sequences))

\* to_dict(sequences)
to_dict(sequences) == to_dict_from(<<>>, sequences)

ToDict ==
    /\ call.fn = "to_dict"
    /\ ~ret.done
    /\ ret' = [done |-> TRUE, value |-> to_dict(call.sequences)]
    /\ UNCHANGED <<genVars, call>>

InitToDict ==
    /\ Idle
    /\ call \in {[fn |-> "to_dict", sequences |-> rs] :
                    rs \in Lists({Record(id, s, None) :
                                     id \in {None, <<"A">>, <<"C">>},
                                     s \in {<<>>, <<"A">>}},
                                 MaxRecords)}
    /\ ret = Pending

SpecToDict == InitToDict /\ [][ToDict]_vars

----------------------------------------------------------------------------
(* What the claims are stated with.                                        *)

Max(S) == CHOOSE x \in S : \A y \in S : y <= x

Min(S) == CHOOSE x \in S : \A y \in S : x <= y

Last(s) == s[Len(s)]

\* s without the whitespace at its two ends, by the positions of its
\* other characters
Trim(s) ==
    LET nw == {i \in 1..Len(s) : s[i] \notin Whitespace}
    IN  IF nw = {} THEN <<>> ELSE SubSeq(s, Min(nw), Max(nw))

\* the positions of the header lines of the lines L
Headers(L) == {i \in 1..Len(L) : L[i] # <<>> /\ L[i][1] = ">"}

\* the header before position e, 0 when there is none
Prev(L, e) == Max({h \in Headers(L) : h < e} \cup {0})

\* the positions where a Record is due: a header, or the end of the stream
\* once reached, with at least one line since the header before
EmitPoints(L, eof) ==
    {e \in Headers(L) \cup (IF eof THEN {Len(L) + 1} ELSE {}) :
        e - Prev(L, e) > 1}

\* the trimmed lines L[from..to], one after the other
RECURSIVE Body(_, _, _)
Body(L, from, to) ==
    IF from > to THEN <<>> ELSE Trim(L[from]) \o Body(L, from + 1, to)

\* the Record due at position e
RecordAt(L, e) ==
    LET p == Prev(L, e)
    IN  Record(IF p = 0 THEN None ELSE header_seqid(L[p]),
               Body(L, p + 1, e - 1),
               IF p = 0 THEN None ELSE header_desc(L[p], header_seqid(L[p])))

\* the k-th smallest element of S
Kth(S, k) == CHOOSE e \in S : Cardinality({x \in S : x <= e}) = k

\* the Records due after the lines L, in file order
Expected(L, eof) ==
    LET E == EmitPoints(L, eof)
    IN  [k \in 1..Cardinality(E) |-> RecordAt(L, Kth(E, k))]

\* the generator is at a yield: the last of yielded was just handed out
AtYield == pc \in {"yield_180", "yield_187"}

\* the lines read before the Record just yielded was closed
ReadBefore ==
    IF pc = "yield_180" THEN SubSeq(consumed, 1, Len(consumed) - 1)
    ELSE consumed

\* the Record just yielded belongs to a header line
HasHeader == AtYield /\ Headers(ReadBefore) # {}

\* that header line
TheHeader == ReadBefore[Max(Headers(ReadBefore))]

\* what follows the first whitespace-delimited token of the header line h
\* ('>' and the characters directly after it), trimmed
Remainder(h) ==
    LET stop == Min({i \in 1..Len(h) : i = Len(h) \/ h[i + 1] \in Whitespace})
    IN  Trim(SubSeq(h, stop + 1, Len(h)))

----------------------------------------------------------------------------
(* The claims.                                                             *)

\* the kind the signature table of the specification gives a file
SignatureKind(bytes) ==
    IF startswith(bytes, <<31, 139, 8>>) THEN "gz"
    ELSE IF startswith(bytes, <<66, 90, 104>>) THEN "bz2"
    ELSE IF startswith(bytes, <<80, 75, 3, 4>>) THEN "zip"
    ELSE IF startswith(bytes, <<40, 181, 47, 253>>) THEN "zstandard"
    ELSE IF startswith(bytes, <<4, 34, 77, 24>>) THEN "lz4"
    ELSE "plain"

\* C1: once get_compression_type has returned, the kind it gave is gz
\* exactly when the file starts with 1f 8b 08, bz2 exactly for 42 5a 68,
\* zip exactly for 50 4b 03 04, zstandard exactly for 28 b5 2f fd, lz4
\* exactly for 04 22 4d 18, and plain for every other file, short ones
\* included.
C1_KindFollowsSignature ==
    compression_type # "unset" => compression_type = SignatureKind(data)

\* get_open_func has raised or returned
Looked == pc \notin {"created", "sniff_open", "sniff_read", "sniff_close",
                     "get_open_func"}

\* C3: for a file classified plain, gz, bz2 or zip, get_open_func returns
\* an open function: it raises neither KeyError nor ImportError, whatever
\* HAS_ZSTANDARD and HAS_LZ4 are.
C3_DecoderAlwaysAvailable ==
    (Looked /\ compression_type \in {"plain", "gz", "bz2", "zip"})
        => error \notin {"KeyError", "ImportError"}

\* the file starts with the signature of a codec that is not installed
MissingCodec ==
    \/ file_start = <<40, 181, 47, 253>> /\ ~HAS_ZSTANDARD
    \/ file_start = <<4, 34, 77, 24>> /\ ~HAS_LZ4

\* C4: for a file whose first four bytes are the zstandard or the lz4
\* signature while that codec is not installed, get_open_func ends in
\* ImportError: no Record was yielded and no decoder stream was opened.
C4_MissingCodecIsImportError ==
    (Looked /\ MissingCodec)
        => /\ pc = "raised"
           /\ error = "ImportError"
           /\ yielded = <<>>
           /\ opens = 0

\* C9: the sniffer's handle is closed before the decoder stream is opened,
\* at most one decoder stream is opened, and once the iteration is over
\* (exhausted, closed, abandoned, or ended by an error) no handle is open.
C9_NoHandleLeftOpen ==
    /\ stream_fh # "none" => sniff_fh = "closed"
    /\ opens <= 1
    /\ pc \in {"finished", "closed", "abandoned", "raised"}
           => (sniff_fh # "open" /\ stream_fh # "open")

\* C2: the Records yielded so far are exactly the ones due after the lines
\* read so far: one for each header line, and one for the end of the stream
\* once reached, that comes after at least one body line since the header
\* before it; in file order; each the concatenation of the trimmed body
\* lines since that header, with that header's id and description (None
\* when there is no header before).
C2_RecordsAsDue ==
    yielded = Expected(consumed, pc \in {"yield_187", "finished"})

\* C2 witness: the stream was read to its end, two Records were yielded,
\* and a header directly followed by a header yielded none.
C2_Witness ==
    /\ pc = "finished"
    /\ Len(yielded) = 2
    /\ \E i \in 1..(Len(consumed) - 1) :
           is_header(consumed[i]) /\ is_header(consumed[i + 1])

C6_IdIsFirstTokenNonEmpty ==
    HasHeader =>
        /\ split(Tail(TheHeader)) # <<>>
        /\ Last(yielded).id = split(Tail(TheHeader))[1]
        /\ Last(yielded).id # <<>>

\* every Record of records has an id (the input began with a header line)
\* and a sequence that holds neither whitespace nor '>'
Plain(records) ==
    \A i \in 1..Len(records) :
        /\ records[i].id # None
        /\ Chars(records[i].seq) \cap (Whitespace \cup {">"}) = {}

\* C7 as claimed, on the inputs of two Records or more that begin with a
\* header line and hold neither whitespace nor '>' inside a sequence: for
\* every such input and every wrap width, parsing what format wrote for the
\* parsed Records gives the same Records again.
C7_RoundTripEveryInput ==
    (call.fn = "roundtrip" /\ ret.done /\ Len(ret.records) >= 2
        /\ Plain(ret.records))
        => ret.reparsed = ret.records

\* every Record of records has an id and a sequence that is not empty and
\* holds neither whitespace nor '>'
WellFormed(records) ==
    /\ Plain(records)
    /\ \A i \in 1..Len(records) : records[i].seq # <<>>

\* C7 as amended: the same, for the inputs whose parsed Records each have
\* an id and a non-empty sequence free of whitespace and '>'.
C7_RoundTripWellFormed ==
    (call.fn = "roundtrip" /\ ret.done /\ WellFormed(ret.records))
        => ret.reparsed = ret.records

\* C7 witness: a well-formed input of two Records went round, with a
\* sequence longer than the wrap width.
C7_Witness ==
    /\ call.fn = "roundtrip"
    /\ ret.done
    /\ WellFormed(ret.records)
    /\ Len(ret.records) >= 2
    /\ call.wrap > 0
    /\ \E i \in 1..Len(ret.records) : Len(ret.records[i].seq) > call.wrap
    /\ \E i \in 1..Len(ret.records) : ret.records[i].desc # <<>>

\* the lines of text t without their terminators
Unterminated(ls) == [k \in 1..Len(ls) |-> SubSeq(ls[k], 1, Len(ls[k]) - 1)]

\* C8: format(wrap = N) writes the header line and then, for N > 0, lines
\* that concatenate to the sequence, each N long but the last, which is
\* len(seq) mod N long (N when that is 0); for N = 0, one line holding the
\* sequence; every line written ends with a line terminator.
C8_FormatWraps ==
    (call.fn = "format" /\ ret.done) =>
        LET ls == readlines(ret.value)
            body == Unterminated(SubSeq(ls, 2, Len(ls)))
            s == call.self.seq
            N == call.wrap
        IN  /\ \A k \in 1..Len(ls) : Last(ls[k]) = NL
            /\ ls # <<>>
            /\ ls[1] = description(call.self) \o <<NL>>
            /\ join(body) = s
            /\ N > 0 =>
                 /\ Len(body) * N >= Len(s)
                 /\ (Len(body) - 1) * N < Len(s) \/ s = <<>>
                 /\ \A k \in 1..(Len(body) - 1) : Len(body[k]) = N
                 /\ body # <<>> =>
                      Len(Last(body)) =
                          (IF Len(s) % N = 0 THEN N ELSE Len(s) % N)
            /\ N = 0 => body = <<s>>

\* C8 witness: a sequence of three written two to a line, the last line
\* one long.
C8_Witness ==
    /\ call.fn = "format"
    /\ ret.done
    /\ call.wrap = 2
    /\ Len(call.self.seq) = 3

\* C10: the keys of to_dict(sequences) are the ids of the sequence, as many
\* as there are distinct ids, each mapped to the last Record with that id;
\* the empty sequence gives the empty mapping.
C10_LastRecordWins ==
    (call.fn = "to_dict" /\ ret.done) =>
        LET rs == call.sequences
            ids == {rs[i].id : i \in 1..Len(rs)}
        IN  /\ DOMAIN ret.value = ids
            /\ Cardinality(DOMAIN ret.value) = Cardinality(ids)
            /\ \A k \in ids :
                 ret.value[k] = rs[Max({i \in 1..Len(rs) : rs[i].id = k})]
            /\ rs = <<>> => DOMAIN ret.value = {}

\* C10 witness: two different Records of one id, and another id, were
\* folded.
C10_Witness ==
    /\ call.fn = "to_dict"
    /\ ret.done
    /\ \E i, j \in 1..Len(call.sequences) :
           /\ i < j
           /\ call.sequences[i].id = call.sequences[j].id
           /\ call.sequences[i] # call.sequences[j]
    /\ Cardinality(DOMAIN ret.value) = 2

====
